---- MODULE Spec2Model ----
(***************************************************************************)
(* Model of the substitution engine of Beeftext                            *)
(* (src/Beeftext/BeeftextUtils.cpp) and of the combo list folder and the   *)
(* update check status of its preferences frame                            *)
(* (src/PreferencesFrame.cpp).                                             *)
(*                                                                         *)
(* A QString is a sequence of UTF-16 code units (integers).  The engine    *)
(* runs on one thread: performTextSubstitution is a sequence of steps,     *)
(* pc is the statement the call is about to execute, and the deferred      *)
(* clipboard restore only runs when no call is in progress.                *)
(***************************************************************************)
EXTENDS Integers, Sequences, FiniteSets

\* ------------------------------------------------------------------ bounds
MaxLen == 2          \* longest replacement, in tokens (code points or tags)
MaxErase == 1        \* largest charCount; the smallest is -1
MaxCursor == 1       \* largest cursorPos; the smallest is -1
MaxCalls == 2        \* calls in a row, where the calls follow one another
MaxCountLen == 3     \* longest argument of printableCharacterCount, in code points
MaxMessages == 3     \* update check results that reach the preferences frame
MaxMoves == 1        \* changes of the user's keys while one call runs
TicksPerTimeout == 3 \* steps in which the time-out of the status label elapses

\* ------------------------------------------------- virtual key codes, chars
VK_BACK == 8
VK_RETURN == 13
VK_LEFT == 37
VK_V == 86
VK_LWIN == 91
VK_RWIN == 92
VK_LSHIFT == 160
VK_RSHIFT == 161
VK_LCONTROL == 162
VK_RCONTROL == 163
VK_LMENU == 164
VK_RMENU == 165

\* The modifier keys, in the order of the list (BeeftextUtils.cpp:30).
modifierKeys ==
    <<VK_LCONTROL, VK_RCONTROL, VK_LMENU, VK_RMENU, VK_LSHIFT, VK_RSHIFT,
      VK_LWIN, VK_RWIN>>

LineFeed == 10                    \* QChar::LineFeed
kObjectReplacementChar == 65532   \* 0xfffc
ZeroWidthJoiner == 8205           \* 0x200d
FitzpatrickFirst == 127995        \* 0x1f3fb
FitzpatrickLast == 127999         \* 0x1f3ff
ReplacementCharacter == 65533     \* 0xfffd, what toUcs4 yields for a lone surrogate
ClipboardRestoreDelayMs == 1000

\* In HTML source one element of the sequence may stand for a whole tag:
\* MarkupBold for a formatting tag, MarkupImage for an <img> element.
MarkupBold == 57344
MarkupImage == 57345

\* ------------------------------------------------------------ UTF-16 / UCS-4
IsHighSurrogate(u) == u >= 55296 /\ u <= 56319
IsLowSurrogate(u) == u >= 56320 /\ u <= 57343
SurrogateToUcs4(h, l) == 65536 + (h - 55296) * 1024 + (l - 56320)

\* QString::fromUcs4 of one code point.
FromUcs4Char(cp) ==
    IF cp >= 65536
    THEN <<55296 + ((cp - 65536) \div 1024), 56320 + ((cp - 65536) % 1024)>>
    ELSE <<cp>>

RECURSIVE FromUcs4(_)
FromUcs4(cps) ==
    IF cps = <<>> THEN <<>>
    ELSE FromUcs4Char(Head(cps)) \o FromUcs4(Tail(cps))

\* QString::toUcs4: surrogate pairs are combined, a lone surrogate becomes
\* U+FFFD.
RECURSIVE ToUcs4(_)
ToUcs4(s) ==
    IF s = <<>> THEN <<>>
    ELSE IF Len(s) >= 2 /\ IsHighSurrogate(s[1]) /\ IsLowSurrogate(s[2])
    THEN <<SurrogateToUcs4(s[1], s[2])>> \o ToUcs4(SubSeq(s, 3, Len(s)))
    ELSE IF IsHighSurrogate(s[1]) \/ IsLowSurrogate(s[1])
    THEN <<ReplacementCharacter>> \o ToUcs4(Tail(s))
    ELSE <<s[1]>> \o ToUcs4(Tail(s))

qMax(a, b) == IF a > b THEN a ELSE b

\* The loop of printableCharacterCount: the running count after the code
\* points of ucs4 have been visited, starting from result.
RECURSIVE CountLoop(_, _)
CountLoop(ucs4, result) ==
    IF ucs4 = <<>> THEN result
    ELSE LET c == Head(ucs4)
             r1 == IF c = ZeroWidthJoiner THEN result - 2 ELSE result
             r2 == IF c >= FitzpatrickFirst /\ c <= FitzpatrickLast
                   THEN r1 - 1 ELSE r1
         IN CountLoop(Tail(ucs4), r2)

printableCharacterCountUnclamped(str) ==
    LET ucs4 == ToUcs4(str)
    IN CountLoop(ucs4, Len(ucs4))
printableCharacterCount(str) ==
    LET ucs4 == ToUcs4(str)
    IN qMax(0, CountLoop(ucs4, Len(ucs4)))

\* ------------------------------------------------------------- HTML to text
\* QTextDocumentFragment::fromHtml(snippet).toPlainText(): tags carry no
\* text, an image becomes the object replacement character.
RECURSIVE HtmlToPlainText(_)
HtmlToPlainText(s) ==
    IF s = <<>> THEN <<>>
    ELSE IF Head(s) = MarkupBold THEN HtmlToPlainText(Tail(s))
    ELSE IF Head(s) = MarkupImage
    THEN <<kObjectReplacementChar>> \o HtmlToPlainText(Tail(s))
    ELSE <<Head(s)>> \o HtmlToPlainText(Tail(s))

\* QString::remove(QChar)
RECURSIVE Remove(_, _)
Remove(s, ch) ==
    IF s = <<>> THEN <<>>
    ELSE IF Head(s) = ch THEN Remove(Tail(s), ch)
    ELSE <<Head(s)>> \o Remove(Tail(s), ch)

snippetToPlainText(snippet, isHtml) ==
    IF ~isHtml THEN snippet
    ELSE Remove(HtmlToPlainText(snippet), kObjectReplacementChar)

\* The text whose printable characters the repositioning step counts
\* (BeeftextUtils.cpp:223).
RepositionText(newText, isHtml) ==
    IF isHtml THEN HtmlToPlainText(newText) ELSE newText

LeftArrowCountByLength(newText, isHtml, cursorPos) ==
    qMax(0, Len(RepositionText(newText, isHtml)) - cursorPos)
LeftArrowCount(newText, isHtml, cursorPos) ==
    qMax(0, printableCharacterCount(RepositionText(newText, isHtml)) - cursorPos)


\* ------------------------------------------------------------------- inputs
Range(f) == {f[j] : j \in DOMAIN f}

SeqsUpTo(S, n) == UNION {[1..k -> S] : k \in 0..n}

\* Code points of a plain replacement (65 is the letter A), and the elements
\* of an HTML one.
PlainTokens == {65, LineFeed, ZeroWidthJoiner, FitzpatrickFirst}
HtmlTokens == {65, LineFeed, MarkupBold, MarkupImage}

Snippets(isHtml, n) ==
    {FromUcs4(t) : t \in SeqsUpTo(IF isHtml THEN HtmlTokens ELSE PlainTokens, n)}

\* The sets of modifier keys the user may be holding.
HeldChoices == {{}, {VK_LCONTROL, VK_LSHIFT}}

\* Answers of the collaborators.
Apps == {"notepad.exe", "keepass.exe"}
SensitiveApps == {"keepass.exe"}
Resolutions == {"ok", "noProcess", "noModuleName"}
Delays == {0, 10}
ExceptionKinds == {"Exception", "other"}

UserClipboard == [text |-> <<85>>, html |-> FALSE]
EmptyClipboard == [text |-> <<>>, html |-> FALSE]

\* -------------------------------------------------------------------- state
VARIABLES
    hookEnabled,            \* InputManager: is the keyboard hook enabled
    keysDown,               \* the keys GetKeyState reports as down
    physHeld,               \* the modifier keys the user physically holds
    clipboard,              \* content of the OS clipboard
    clipboardBackup,        \* ClipboardManager: the backup
    pendingRestores,        \* single-shot timers waiting to restore the clipboard
    pc,                     \* statement performTextSubstitution is about to run
    charCount, newText, isHtml, cursorPos,   \* arguments of the call
    wasKeyboardHookEnabled, \* local of the call
    exeName,                \* the temporary returned by getActiveExecutableFileName
    sensitive,              \* answer of isSensitiveApplication in this call
    delayRead,              \* the delay preference as this call read it, -1 if not yet
    text,                   \* local of the type branch
    idx,                    \* position of the range-for over text
    pressedModifiers,       \* local: the snapshot to restore
    i,                      \* counter of the left-arrow loop
    exc,                    \* the exception in flight, "none" if none
    trace,                  \* operations of the current call, in order
    strategy,               \* branch taken by the current call
    lastResult,             \* outcome of the call as the caller sees it
    hookBefore,             \* value the hook flag had when the call started
    callsLeft,              \* calls the caller still makes
    lenCap,                 \* longest replacement the caller submits
    eraseChoices,           \* values of charCount the caller submits
    cursorCap,              \* largest cursorPos the caller submits
    htmlKinds,              \* values of isHtml the caller submits
    clipAtCall,             \* content of the clipboard when the call started
    pendingAtCall,          \* restores that were pending when the call started
    writeAtCall,            \* lastWrite when the call started
    freshAtCall,            \* freshWrite when the call started
    userMoved,              \* the user changed a key during the call: "none", or
                            \* "call" before the latest capture, or "bracket" since
    downAtCapture,          \* the keys that were down when the latest capture ran
    movesLeft,              \* changes of keys the user still makes during the call
    moveCap,                \* changes of keys the user makes during one call
    lastWrite,              \* content the latest clipboard write of a call put,
                            \* empty once a restore has run
    freshWrite,             \* a call wrote and no restore has run since
    countIn,                \* argument of printableCharacterCount
    countOut,               \* its result in a list, empty before the call
    comboListFolderPath,    \* PreferencesManager: the stored combo list folder
    editComboListFolder,    \* PreferencesFrame: text of the folder edit field
    lastApply,              \* the latest call of applyComboListFolderPreference
    labelUpdateCheckStatus, \* PreferencesFrame: text of the status label
    updateCheckStatusTimer, \* PreferencesFrame: the single-shot timer
    shownMs,                \* time since the latest status message, capped
    clears,                 \* time-outs that ran since the latest status message
    stoppedLeft,            \* time that was left on the timer the latest status
                            \* message stopped, -1 if it was not running
    messagesLeft            \* update check results still to come

folderVars == <<comboListFolderPath, editComboListFolder, lastApply>>
statusVars == <<labelUpdateCheckStatus, updateCheckStatusTimer, shownMs, clears,
                stoppedLeft, messagesLeft>>
frameVars == <<folderVars, statusVars>>
scopeVars == <<lenCap, eraseChoices, cursorCap, htmlKinds, moveCap, countIn, countOut,
               frameVars>>
callSnapshot == <<clipAtCall, pendingAtCall, writeAtCall, freshAtCall>>
moveVars == <<userMoved, downAtCapture, movesLeft>>
atCallVars == <<callSnapshot, moveVars>>
writeVars == <<lastWrite, freshWrite>>
envVars == <<physHeld, callsLeft, scopeVars, atCallVars>>
clipVars == <<clipboard, clipboardBackup, pendingRestores, writeVars>>
argVars == <<charCount, newText, isHtml, cursorPos>>
localVars == <<wasKeyboardHookEnabled, exeName, sensitive, delayRead, text, idx,
               pressedModifiers, i>>
vars == <<hookEnabled, keysDown, envVars, clipVars, pc, argVars, localVars,
          exc, trace, strategy, lastResult, hookBefore>>

\* Kinds of trace entries that are synthesized input events.
InputKinds == {"Backspace", "KeyDown", "KeyUp", "KeyDownUp", "Unicode"}

\* The state after start-up of the application, before any call, with the keys
\* of held down by the user, and a caller that makes calls calls with
\* replacements of at most len code units, of the formats of kinds, charCount
\* among erases and cursorPos up to cursor, the user changing keys up to moves
\* times while a call runs.
InitWith(held, calls, len, kinds, erases, cursor, moves) ==
    /\ hookEnabled = TRUE
    /\ keysDown = held
    /\ physHeld = held
    /\ clipboard = UserClipboard
    /\ clipboardBackup = EmptyClipboard
    /\ pendingRestores = 0
    /\ pc = "Idle"
    /\ charCount = 0 /\ newText = <<>> /\ isHtml = FALSE /\ cursorPos = -1
    /\ wasKeyboardHookEnabled = TRUE
    /\ exeName = ""
    /\ sensitive = FALSE
    /\ delayRead = -1
    /\ text = <<>>
    /\ idx = 1
    /\ pressedModifiers = <<>>
    /\ i = 0
    /\ exc = "none"
    /\ trace = <<>>
    /\ strategy = "none"
    /\ lastResult = "none"
    /\ hookBefore = TRUE
    /\ callsLeft = calls
    /\ lenCap = len
    /\ eraseChoices = erases
    /\ cursorCap = cursor
    /\ htmlKinds = kinds
    /\ clipAtCall = UserClipboard
    /\ pendingAtCall = 0
    /\ writeAtCall = EmptyClipboard
    /\ freshAtCall = FALSE
    /\ userMoved = "none"
    /\ downAtCapture = {}
    /\ movesLeft = 0
    /\ moveCap = moves
    /\ lastWrite = EmptyClipboard
    /\ freshWrite = FALSE

\* ------------------------------------------------------- preferences frame
\* Time-out of the update check status label, in milliseconds.
kUpdateCheckStatusLabelTimeoutMs == 3000

\* Code units of the separators of a path.
Slash == 47
Backslash == 92
Space == 32

\* PreferencesManager::defaultComboListFolderPath(): "C:/D".
defaultComboListFolderPath == <<67, 58, Slash, 68>>

\* Other folders the user can pick in the folder dialog: "C:/A", "C:/B".
OtherFolders == {<<67, 58, Slash, 65>>, <<67, 58, Slash, 66>>}

\* QDir::toNativeSeparators on Windows: every '/' becomes '\'.
toNativeSeparators(path) ==
    [j \in DOMAIN path |-> IF path[j] = Slash THEN Backslash ELSE path[j]]

\* A single-shot QTimer: is it running, and the time left before it fires.
StoppedTimer == [active |-> FALSE, left |-> 0]

\* No call of applyComboListFolderPreference yet.
NoApply == [action |-> "none", saved |-> FALSE, folderPath |-> <<>>,
            previousPath |-> <<>>, fieldBefore |-> <<>>]

\* The preferences frame after its constructor, with the folder stored in the
\* preferences, and messages update check results to come.
FrameInit(stored, messages) ==
    /\ comboListFolderPath = stored
    /\ editComboListFolder = toNativeSeparators(stored)
    /\ lastApply = NoApply
    /\ labelUpdateCheckStatus = ""
    /\ updateCheckStatusTimer = StoppedTimer
    /\ shownMs = 0
    /\ clears = 0
    /\ stoppedLeft = -1
    /\ messagesLeft = messages

\* The preferences frame is not used.
NoFrame == FrameInit(defaultComboListFolderPath, 0)

\* printableCharacterCount is not called on its own.
NoCount == countIn = <<>> /\ countOut = <<>>

\* One call, no key held at the start, the user changing keys before the call.
Init == InitWith({}, 1, MaxLen, BOOLEAN, (-1)..MaxErase, MaxCursor, 0) /\ NoCount /\ NoFrame

\* One call of a plain-text replacement that erases nothing, the user changing
\* keys before the call and up to MaxMoves times while it runs.
InitMoves == InitWith({}, 1, MaxLen, {FALSE}, {0}, MaxCursor, MaxMoves) /\ NoCount /\ NoFrame

\* One call of a replacement of one code unit, started with any of the 256
\* combinations of the eight modifier keys held down, the user changing keys
\* once while it runs.
InitKeys ==
    \E held \in SUBSET Range(modifierKeys) : InitWith(held, 1, 1, BOOLEAN, {0}, 0, 1) /\ NoCount /\ NoFrame

\* MaxCalls calls one after the other, each of a plain-text replacement of one
\* code unit that erases nothing.
InitSeq == InitWith({}, MaxCalls, 1, {FALSE}, {-1}, 0, 0) /\ NoCount /\ NoFrame

\* The same calls with both formats, made by a caller that serializes them.
InitSerial == InitWith({}, MaxCalls, 1, BOOLEAN, {-1}, 0, 0) /\ NoCount /\ NoFrame

\* MaxCalls calls one after the other, each of a plain-text replacement of one
\* code unit that erases one character.
InitApps == InitWith({}, MaxCalls, 1, {FALSE}, {1}, 0, 0) /\ NoCount /\ NoFrame

\* The strings printableCharacterCount is applied to: up to MaxCountLen pieces,
\* each a letter, a zero-width joiner, an emoji, the first or the last
\* Fitzpatrick modifier, or half of a surrogate pair on its own.
CountPieces ==
    {<<65>>, <<ZeroWidthJoiner>>, FromUcs4Char(128104),
     FromUcs4Char(FitzpatrickFirst), FromUcs4Char(FitzpatrickLast),
     <<FromUcs4Char(FitzpatrickFirst)[1]>>, <<FromUcs4Char(FitzpatrickFirst)[2]>>}

RECURSIVE Flatten(_)
Flatten(ss) == IF ss = <<>> THEN <<>> ELSE Head(ss) \o Flatten(Tail(ss))

CountInputs == {Flatten(ps) : ps \in SeqsUpTo(CountPieces, MaxCountLen)}

\* No call of performTextSubstitution; printableCharacterCount is about to be
\* applied to one string.
InitCount ==
    /\ InitWith({}, 0, 0, {}, {}, -1, 0)
    /\ countIn \in CountInputs
    /\ countOut = <<>>
    /\ NoFrame


\* ------------------------------------------------------ modifier key tracker
\* The list returned by backupAndReleaseModifierKeys when the keys of kd are
\* down: the modifier keys that are down, in the order of modifierKeys.
BackupResult(kd) == SelectSeq(modifierKeys, LAMBDA k : k \in kd)

\* One trace entry per key of the list keys.
KeyEvents(kind, keys) == [j \in 1..Len(keys) |-> <<kind, keys[j]>>]

\* Key state after synthesizeKeyUp / synthesizeKeyDown of every key of keys.
AfterKeyUpsNoWinKeys(kd, keys) == kd \ (Range(keys) \ {VK_LWIN, VK_RWIN})
AfterKeyUps(kd, keys) == kd \ Range(keys)
AfterKeyDownsButLast(kd, keys) == kd \cup Range(SubSeq(keys, 1, Len(keys) - 1))
AfterKeyDowns(kd, keys) == kd \cup Range(keys)

\* ----------------------------------------------------------- collaborators
\* getActiveExecutableFileName: a null string when the process cannot be
\* opened or its module name cannot be read.
getActiveExecutableFileName(app, resolution) ==
    IF resolution = "noProcess" THEN ""
    ELSE IF resolution = "ok" THEN app ELSE ""

\* SensitiveApplicationManager::isSensitiveApplication
isSensitiveApplication(name) == name \in SensitiveApps

\* ------------------------------------------------------------------- caller
\* The value performTextSubstitution gives the hook flag while it runs
\* (argument of setKeyboardHookEnabled, line 168).
SuspendedHookValueKept == TRUE
SuspendedHookValue == FALSE

\* performTextSubstitution is entered: the hook is disabled and its prior
\* value kept (BeeftextUtils.cpp:167-168).
StartCall(cc, nt, html, cp) ==
    /\ pc = "Idle"
    /\ callsLeft > 0
    /\ callsLeft' = callsLeft - 1
    /\ charCount' = cc /\ newText' = nt /\ isHtml' = html /\ cursorPos' = cp
    /\ hookBefore' = hookEnabled
    /\ wasKeyboardHookEnabled' = hookEnabled
    /\ hookEnabled' = SuspendedHookValue
    /\ pc' = "backspaces"
    /\ exc' = "none"
    /\ trace' = <<>>
    /\ strategy' = "none"
    /\ lastResult' = "running"
    /\ exeName' = ""
    /\ sensitive' = FALSE
    /\ delayRead' = -1
    /\ text' = <<>>
    /\ idx' = 1
    /\ pressedModifiers' = <<>>
    /\ i' = 0
    /\ clipAtCall' = clipboard
    /\ pendingAtCall' = pendingRestores
    /\ writeAtCall' = lastWrite
    /\ freshAtCall' = freshWrite
    /\ userMoved' = "none"
    /\ downAtCapture' = {}
    /\ movesLeft' = moveCap
    /\ UNCHANGED <<keysDown, physHeld, scopeVars, clipVars>>

Call ==
    /\ pc = "Idle"
    /\ callsLeft > 0
    /\ \E cc \in eraseChoices, html \in htmlKinds, cp \in (-1)..cursorCap :
           \E nt \in Snippets(html, lenCap) : StartCall(cc, nt, html, cp)

\* The keys GetKeyState reports as down (line 57) once the user, who held the
\* keys of held, holds the keys of ks: a key the user released is up, a key the
\* user pressed is down, every other key is as the latest event left it.
AfterUserKeys(kd, held, ks) == (kd \ (held \ ks)) \cup (ks \ held)

\* The user presses or releases modifier keys, between two calls or while a
\* call runs: the call reads the keys anew at every capture (line 57), and
\* waits between two characters (line 85).
UserKeys(ks) ==
    /\ IF pc = "Idle" THEN callsLeft > 0 ELSE movesLeft > 0
    /\ ks # physHeld
    /\ physHeld' = ks
    /\ keysDown' = AfterUserKeys(keysDown, physHeld, ks)
    /\ userMoved' = IF pc = "Idle" THEN userMoved ELSE "bracket"
    /\ movesLeft' = IF pc = "Idle" THEN movesLeft ELSE movesLeft - 1
    /\ UNCHANGED <<hookEnabled, callsLeft, scopeVars, callSnapshot, downAtCapture,
                   clipVars, pc, argVars, localVars, exc, trace, strategy, lastResult,
                   hookBefore>>

\* The application enables or disables the keyboard hook between two calls.
SetHook(b) ==
    /\ pc = "Idle"
    /\ callsLeft > 0
    /\ b # hookEnabled
    /\ hookEnabled' = b
    /\ hookBefore' = b
    /\ UNCHANGED <<keysDown, envVars, clipVars, pc, argVars, localVars, exc,
                   trace, strategy, lastResult>>

\* The single-shot timer of line 188 fires: the event loop runs it when no
\* call is in progress.
TimerFire ==
    /\ pc = "Idle"
    /\ pendingRestores > 0
    /\ clipboard' = clipboardBackup
    /\ pendingRestores' = pendingRestores - 1
    /\ lastWrite' = EmptyClipboard
    /\ freshWrite' = FALSE
    /\ UNCHANGED <<hookEnabled, keysDown, envVars, clipboardBackup, pc, argVars,
                   localVars, exc, trace, strategy, lastResult, hookBefore>>

\* ------------------------------------------------- performTextSubstitution
\* What every step of the call leaves alone.
callFrame == <<envVars, argVars, wasKeyboardHookEnabled, exc, lastResult,
               hookBefore>>

\* What the steps after line 174 leave alone as well.
queried == <<exeName, sensitive>>

\* Where the call continues after the paste or the type branch (line 219).
AfterStrategyNoCapture(cp) == IF cp >= 0 THEN "posLoop" ELSE "restoreHook"
AfterStrategy(cp) == IF cp >= 0 THEN "posCapture" ELSE "restoreHook"

\* The argument of synthesizeBackspaces (line 173).
EraseCountUnclamped(cc) == IF cc < 0 THEN -cc ELSE cc
EraseCount(cc) == qMax(cc, 0)

\* line 173
Backspaces ==
    /\ pc = "backspaces"
    /\ trace' = trace \o [j \in 1..EraseCount(charCount) |-> <<"Backspace", VK_BACK>>]
    /\ pc' = "select"
    /\ UNCHANGED <<hookEnabled, keysDown, clipVars, callFrame, queried, delayRead, text,
                   idx, pressedModifiers, i, strategy>>

\* The statements of the paste branch, in program order (lines 178-188).
PasteStepsWriteFirst ==
    <<"setClipboard", "backupClipboard", "pasteCapture", "ctrlDown", "keyV",
      "ctrlUp", "pasteRestore", "scheduleRestore">>
PasteStepsBackupLast ==
    <<"setClipboard", "pasteCapture", "ctrlDown", "keyV", "ctrlUp", "pasteRestore",
      "backupClipboard", "scheduleRestore">>
PasteStepsNoBackup ==
    <<"setClipboard", "pasteCapture", "ctrlDown", "keyV", "ctrlUp", "pasteRestore",
      "scheduleRestore">>
PasteSteps ==
    <<"backupClipboard", "setClipboard", "pasteCapture", "ctrlDown", "keyV",
      "ctrlUp", "pasteRestore", "scheduleRestore">>

\* The statement that follows statement at of the paste branch.
AfterPasteStep(at, cp) ==
    LET j == CHOOSE k \in 1..Len(PasteSteps) : PasteSteps[k] = at
    IN IF j < Len(PasteSteps) THEN PasteSteps[j + 1] ELSE AfterStrategy(cp)

\* The condition of the if of line 174.
TakesPasteBranchAlways(name) == TRUE
TakesPasteBranchCached(name) == pendingAtCall > 0 \/ ~isSensitiveApplication(name)
TakesPasteBranchKnownOnly(name) == name # "" /\ ~isSensitiveApplication(name)
TakesPasteBranch(name) == ~isSensitiveApplication(name)

\* line 174, inner call: the executable of the foreground window is looked up.
ResolveForeground(app, resolution) ==
    /\ pc = "select"
    /\ exeName' = getActiveExecutableFileName(app, resolution)
    /\ pc' = "branch"
    /\ UNCHANGED <<hookEnabled, keysDown, clipVars, callFrame, sensitive,
                   delayRead, text, idx, pressedModifiers, i, strategy, trace>>

\* line 174: the name is tested and the branch taken; the temporary that
\* held the name is gone after the test.
SelectStrategy ==
    /\ pc = "branch"
    /\ sensitive' = isSensitiveApplication(exeName)
    /\ exeName' = ""
    /\ trace' = Append(trace, <<"IsSensitive", 0>>)
    /\ IF TakesPasteBranch(exeName)
       THEN /\ strategy' = "paste"
            /\ pc' = PasteSteps[1]
       ELSE /\ strategy' = "type"
            /\ pc' = "toPlainText"
    /\ UNCHANGED <<hookEnabled, keysDown, clipVars, callFrame, delayRead, text,
                   idx, pressedModifiers, i>>

\* line 178
BackupClipboard ==
    /\ pc = "backupClipboard"
    /\ clipboardBackup' = clipboard
    /\ trace' = Append(trace, <<"BackupClipboard", 0>>)
    /\ pc' = AfterPasteStep("backupClipboard", cursorPos)
    /\ UNCHANGED <<hookEnabled, keysDown, clipboard, pendingRestores, writeVars, callFrame,
                   queried, delayRead, text, idx, pressedModifiers, i, strategy>>

\* lines 179-182
SetClipboard ==
    /\ pc = "setClipboard"
    /\ clipboard' = [text |-> newText, html |-> isHtml]
    /\ lastWrite' = clipboard'
    /\ freshWrite' = TRUE
    /\ trace' = Append(trace, <<IF isHtml THEN "SetHtml" ELSE "SetText", 0>>)
    /\ pc' = AfterPasteStep("setClipboard", cursorPos)
    /\ UNCHANGED <<hookEnabled, keysDown, clipboardBackup, pendingRestores,
                   callFrame, queried, delayRead, text, idx, pressedModifiers, i, strategy>>

\* lines 183, 203, 210 and 221: backupAndReleaseModifierKeys
Capture(at, next) ==
    /\ pc = at
    /\ pressedModifiers' = BackupResult(keysDown)
    /\ keysDown' = AfterKeyUps(keysDown, pressedModifiers')
    /\ trace' = Append(trace, <<"Capture", 0>>) \o KeyEvents("KeyUp", pressedModifiers')
    /\ pc' = next
    /\ downAtCapture' = keysDown
    /\ userMoved' = IF userMoved = "none" THEN "none" ELSE "call"
    /\ movesLeft' = movesLeft
    /\ UNCHANGED <<hookEnabled, clipVars, physHeld, callsLeft, scopeVars, callSnapshot,
                   argVars, wasKeyboardHookEnabled, exc, lastResult, hookBefore, queried,
                   delayRead, text, idx, i, strategy>>

\* lines 187, 205, 212 and 226: restoreModifierKeys(pressedModifiers)
Restore(at, next) ==
    /\ pc = at
    /\ keysDown' = AfterKeyDowns(keysDown, pressedModifiers)
    /\ trace' = Append(trace, <<"Restore", 0>>) \o KeyEvents("KeyDown", pressedModifiers)
    /\ pc' = next
    /\ UNCHANGED <<hookEnabled, clipVars, callFrame, queried, delayRead, text, idx,
                   pressedModifiers, i, strategy>>

PasteCapture == Capture("pasteCapture", AfterPasteStep("pasteCapture", cursorPos))

\* Key state after synthesizeKeyDown(VK_LCONTROL) of line 184 and after
\* synthesizeKeyUp(VK_LCONTROL) of line 186.
AfterChordKeyDownRight(kd) == kd \cup {VK_RCONTROL}
AfterChordKeyDown(kd) == kd \cup {VK_LCONTROL}
AfterChordKeyUpSkipped(kd) == kd
AfterChordKeyUp(kd) == kd \ {VK_LCONTROL}

\* line 184
CtrlDown ==
    /\ pc = "ctrlDown"
    /\ keysDown' = AfterChordKeyDown(keysDown)
    /\ trace' = Append(trace, <<"KeyDown", VK_LCONTROL>>)
    /\ pc' = AfterPasteStep("ctrlDown", cursorPos)
    /\ UNCHANGED <<hookEnabled, clipVars, callFrame, queried, delayRead, text, idx,
                   pressedModifiers, i, strategy>>

\* line 185
KeyV ==
    /\ pc = "keyV"
    /\ trace' = Append(trace, <<"KeyDownUp", VK_V>>)
    /\ pc' = AfterPasteStep("keyV", cursorPos)
    /\ UNCHANGED <<hookEnabled, keysDown, clipVars, callFrame, queried, delayRead, text,
                   idx, pressedModifiers, i, strategy>>

\* line 186
CtrlUp ==
    /\ pc = "ctrlUp"
    /\ keysDown' = AfterChordKeyUp(keysDown)
    /\ trace' = Append(trace, <<"KeyUp", VK_LCONTROL>>)
    /\ pc' = AfterPasteStep("ctrlUp", cursorPos)
    /\ UNCHANGED <<hookEnabled, clipVars, callFrame, queried, delayRead, text, idx,
                   pressedModifiers, i, strategy>>

PasteRestore == Restore("pasteRestore", AfterPasteStep("pasteRestore", cursorPos))

\* line 188
ScheduleRestore ==
    /\ pc = "scheduleRestore"
    /\ pendingRestores' = pendingRestores + 1
    /\ trace' = Append(trace, <<"ScheduleRestore", ClipboardRestoreDelayMs>>)
    /\ pc' = AfterPasteStep("scheduleRestore", cursorPos)
    /\ UNCHANGED <<hookEnabled, keysDown, clipboard, clipboardBackup, writeVars, callFrame,
                   queried, delayRead, text, idx, pressedModifiers, i, strategy>>

\* line 194, and the first test of the loop of line 198
ToPlainText ==
    /\ pc = "toPlainText"
    /\ text' = snippetToPlainText(newText, isHtml)
    /\ idx' = 1
    /\ pc' = IF Len(text') >= 1 THEN "typeCapture" ELSE AfterStrategy(cursorPos)
    /\ UNCHANGED <<hookEnabled, keysDown, clipVars, callFrame, queried, delayRead,
                   pressedModifiers, i, strategy, trace>>

TypeCapture == Capture("typeCapture", "typeChar")

\* The event that types the character c (lines 200, 204 and 211).
CharEventUnicodeOnly(c) == <<"Unicode", c>>
CharEvent(c) ==
    IF c = LineFeed THEN <<"KeyDownUp", VK_RETURN>> ELSE <<"Unicode", c>>

\* lines 200, 204 and 211
TypeChar ==
    /\ pc = "typeChar"
    /\ trace' = Append(trace, CharEvent(text[idx]))
    /\ pc' = "typeRestore"
    /\ UNCHANGED <<hookEnabled, keysDown, clipVars, callFrame, queried, delayRead, text,
                   idx, pressedModifiers, i, strategy>>

TypeRestore == Restore("typeRestore", "typeWait")

\* lines 206 and 213: waitBetweenKeystrokes (lines 81-86), then the loop
\* moves to the next character.  The preference does not change while the
\* call runs: every read in a call yields the value of the first one.
SleepEventsAlways(delayMs) == <<<<"Sleep", delayMs>>>>
SleepEvents(delayMs) == IF delayMs > 0 THEN <<<<"Sleep", delayMs>>>> ELSE <<>>

TypeWait(delayMs) ==
    /\ pc = "typeWait"
    /\ delayRead \in {-1, delayMs}
    /\ delayRead' = delayMs
    /\ trace' = trace \o SleepEvents(delayMs)
    /\ idx' = idx + 1
    /\ pc' = IF idx' <= Len(text) THEN "typeCapture" ELSE AfterStrategy(cursorPos)
    /\ UNCHANGED <<hookEnabled, keysDown, clipVars, callFrame, queried, text,
                   pressedModifiers, i, strategy>>

\* line 221
PosCapture == Capture("posCapture", "posLoop")


\* lines 222-225: one iteration of the loop; the bound is computed again at
\* every test.
PosLeft ==
    /\ pc = "posLoop"
    /\ i < LeftArrowCount(newText, isHtml, cursorPos)
    /\ trace' = Append(trace, <<"KeyDownUp", VK_LEFT>>)
    /\ i' = i + 1
    /\ UNCHANGED <<hookEnabled, keysDown, clipVars, pc, callFrame, queried, delayRead,
                   text, idx, pressedModifiers, strategy>>

\* line 226, reached when the test of the loop fails
PosRestore ==
    /\ ~(i < LeftArrowCount(newText, isHtml, cursorPos))
    /\ Restore("posLoop", "restoreHook")

\* line 236: normal exit
RestoreHook ==
    /\ pc = "restoreHook"
    /\ hookEnabled' = wasKeyboardHookEnabled
    /\ pc' = "Idle"
    /\ lastResult' = "ok"
    /\ UNCHANGED <<keysDown, envVars, clipVars, argVars, localVars, exc, trace,
                   strategy, hookBefore>>

\* The statements of the try block (lines 173-227).
TrySteps ==
    {"backspaces", "select", "branch", "backupClipboard", "setClipboard", "pasteCapture",
     "ctrlDown", "keyV", "ctrlUp", "pasteRestore", "scheduleRestore",
     "toPlainText", "typeCapture", "typeChar", "typeRestore", "typeWait",
     "posCapture", "posLoop"}

\* The handler of line 231 catches xmilib::Exception and what derives from it.
Caught(kind) == kind = "Exception"

\* The statement about to run throws: the handler of line 231 is entered if
\* it matches, otherwise the exception leaves the call.
Throw(kind) ==
    /\ pc \in TrySteps
    /\ exc' = kind
    /\ IF Caught(kind)
       THEN pc' = "catch" /\ lastResult' = lastResult
       ELSE pc' = "Idle" /\ lastResult' = kind
    /\ UNCHANGED <<hookEnabled, keysDown, envVars, clipVars, argVars, localVars,
                   trace, strategy, hookBefore>>

\* line 233
CatchRestoreHook ==
    /\ pc = "catch"
    /\ hookEnabled' = wasKeyboardHookEnabled
    /\ pc' = "rethrow"
    /\ UNCHANGED <<keysDown, envVars, clipVars, argVars, localVars, exc, trace,
                   strategy, lastResult, hookBefore>>

\* line 234
Rethrow ==
    /\ pc = "rethrow"
    /\ pc' = "Idle"
    /\ lastResult' = exc
    /\ UNCHANGED <<hookEnabled, keysDown, envVars, clipVars, argVars, localVars,
                   exc, trace, strategy, hookBefore>>

\* ------------------------------------------------------------ specification
Step ==
    \/ Backspaces
    \/ \E app \in Apps, resolution \in Resolutions : ResolveForeground(app, resolution)
    \/ SelectStrategy
    \/ BackupClipboard
    \/ SetClipboard
    \/ PasteCapture
    \/ CtrlDown
    \/ KeyV
    \/ CtrlUp
    \/ PasteRestore
    \/ ScheduleRestore
    \/ ToPlainText
    \/ TypeCapture
    \/ TypeChar
    \/ TypeRestore
    \/ \E delayMs \in Delays : TypeWait(delayMs)
    \/ PosCapture
    \/ PosLeft
    \/ PosRestore
    \/ RestoreHook
    \/ CatchRestoreHook
    \/ Rethrow

Next ==
    \/ Call
    \/ \E ks \in HeldChoices : UserKeys(ks)
    \/ \E b \in BOOLEAN : SetHook(b)
    \/ TimerFire
    \/ Step
    \/ \E kind \in ExceptionKinds : Throw(kind)

Spec == Init /\ [][Next]_vars
KeysSpec == InitKeys /\ [][Next]_vars
MovesSpec == InitMoves /\ [][Next]_vars
SeqSpec == InitSeq /\ [][Next]_vars
AppsSpec == InitApps /\ [][Next]_vars

\* The caller makes a call only once the restore of the previous one has run.
SerialCall == pendingRestores = 0 /\ Call

NextSerial ==
    \/ SerialCall
    \/ \E ks \in HeldChoices : UserKeys(ks)
    \/ \E b \in BOOLEAN : SetHook(b)
    \/ TimerFire
    \/ Step
    \/ \E kind \in ExceptionKinds : Throw(kind)

SerialSpec == InitSerial /\ [][NextSerial]_vars

\* lines 269-285 applied to countIn
CountApply ==
    /\ countOut = <<>>
    /\ countOut' = <<printableCharacterCount(countIn)>>
    /\ UNCHANGED <<hookEnabled, keysDown, physHeld, callsLeft, lenCap, eraseChoices,
                   cursorCap, htmlKinds, moveCap, countIn, frameVars, atCallVars, clipVars, pc,
                   argVars, localVars, exc, trace, strategy, lastResult, hookBefore>>

NextCount == CountApply

CountSpec == InitCount /\ [][NextCount]_vars

\* A call that has started runs on: its steps are not held back.  Nothing
\* forces the caller to call, the user to move or a statement to throw.
FairSpec == Spec /\ WF_vars(Step)

\* The event loop also runs every single-shot timer that is due.
FairTimerSpec == Spec /\ WF_vars(Step) /\ WF_vars(TimerFire)


\* ------------------------------------------------------ reading the trace
IsInput(e) == e[1] \in InputKinds
IsBackspace(e) == e[1] = "Backspace"
IsClipboardOp(e) ==
    e[1] \in {"BackupClipboard", "SetText", "SetHtml", "ScheduleRestore"}
IsKeyV(e) == e = <<"KeyDownUp", VK_V>>
IsEnter(e) == e = <<"KeyDownUp", VK_RETURN>>
IsTyped(e) == e[1] = "Unicode" \/ IsEnter(e)
IsLeft(e) == e = <<"KeyDownUp", VK_LEFT>>
IsCapture(e) == e[1] = "Capture"
IsRestore(e) == e[1] = "Restore"
IsPasteOp(e) == IsClipboardOp(e) \/ IsKeyV(e)

IsPrefix(a, b) == Len(a) <= Len(b) /\ a = SubSeq(b, 1, Len(a))

Failures == {"Exception", "other"}
CallOver == pc = "Idle" /\ lastResult \in {"ok"} \cup Failures

\* ------------------------------------------------------------------- claims

\* C1: whenever a call of performTextSubstitution ends, by returning or by
\* raising, the keyboard-hook flag has the value it had when the call started.
C1_HookFlagSameAtEveryExit ==
    [][(pc # "Idle" /\ pc' = "Idle") => hookEnabled' = hookBefore]_vars

\* C2: every synthesized input event is appended to the trace by a step that
\* starts and ends with the keyboard hook disabled.
C2_EventsOnlyWhileHookDisabled ==
    [][(Len(trace') > Len(trace)
        /\ \E j \in (Len(trace) + 1)..Len(trace') : IsInput(trace'[j]))
       => (~hookEnabled /\ ~hookEnabled')]_vars

C2_Witness ==
    /\ hookBefore
    /\ ~hookEnabled
    /\ pc = "ctrlUp"
    /\ \E j \in 1..Len(trace) : IsKeyV(trace[j])
    /\ \E j \in 1..Len(trace) : IsBackspace(trace[j])

\* C3: a failure of a step reaches the caller as that failure, and only once
\* the hook flag is back to the value it had when the call started.
C3_FailureSeenOnlyAfterHookRestored ==
    [][(lastResult' \in Failures /\ lastResult \notin Failures)
       => (lastResult' = exc' /\ hookEnabled' = hookBefore')]_vars

\* C4: every call that has started ends in Idle with the hook flag released,
\* that is back to the value it had when the call started.
C4_AlwaysBackToIdle ==
    [](pc # "Idle" => <>(pc = "Idle" /\ hookEnabled = hookBefore))

\* C5: the backspaces are the first max(charCount, 0) entries of the trace of
\* a call and there is no other backspace; once the erase step is done all of
\* them have been synthesized, also when charCount is negative.
C5_BackspacesClampedAndFirst ==
    LET n == IF charCount > 0 THEN charCount ELSE 0
    IN /\ \A j \in 1..Len(trace) : IsBackspace(trace[j]) <=> j <= n
       /\ strategy # "none" => Len(trace) > n

C5_Witness ==
    /\ charCount < 0
    /\ lastResult = "ok"
    /\ pc = "Idle"
    /\ \E j \in 1..Len(trace) : IsPasteOp(trace[j]) \/ IsTyped(trace[j])
    /\ \A j \in 1..Len(trace) : ~IsBackspace(trace[j])

\* C6: with a foreground application that is not sensitive, the clipboard
\* operations and the V key of a call happen in the order backup, one write
\* (rich if isHtml, plain otherwise), V, scheduling of the restore; a call
\* that returns has done all four.
C6_PasteOrder ==
    LET expected ==
            <<<<"BackupClipboard", 0>>,
              <<IF isHtml THEN "SetHtml" ELSE "SetText", 0>>,
              <<"KeyDownUp", VK_V>>,
              <<"ScheduleRestore", ClipboardRestoreDelayMs>>>>
        done == SelectSeq(trace, IsPasteOp)
    IN ~sensitive =>
           /\ IsPrefix(done, expected)
           /\ (lastResult = "ok" /\ pc = "Idle") => done = expected

C6_Witness ==
    /\ strategy = "paste"
    /\ lastResult = "ok"
    /\ pc = "Idle"
    /\ isHtml
    /\ Len(SelectSeq(trace, IsPasteOp)) = 4
    /\ clipboardBackup = UserClipboard
    /\ pendingRestores = 1


\* C7: in a call that found a sensitive foreground application no clipboard
\* operation and no V key is in the trace and no step touches the clipboard,
\* its backup or the pending restores; a call never mixes clipboard
\* operations with typed characters, and a call that returns took one branch.
C7_SensitiveNeverUsesClipboard ==
    [][/\ (pc' # "Idle" /\ sensitive') =>
             /\ \A j \in 1..Len(trace') : ~IsPasteOp(trace'[j])
             /\ UNCHANGED clipVars
       /\ ~(/\ \E j \in 1..Len(trace') : IsPasteOp(trace'[j])
            /\ \E j \in 1..Len(trace') : IsTyped(trace'[j]))
       /\ lastResult' = "ok" => strategy' \in {"paste", "type"}]_vars

C7_Witness ==
    /\ sensitive
    /\ lastResult = "ok"
    /\ pc = "Idle"
    /\ Len(SelectSeq(trace, IsTyped)) = 2
    /\ clipboard = UserClipboard
    /\ pendingRestores = 0

\* C8: in the type branch the character events of the trace are, in order,
\* one per QChar of the plain text of the replacement: Enter for a line feed,
\* a Unicode event carrying the QChar otherwise; a call that returns has
\* typed the whole text.
C8_TypedEventsSpellPlainText ==
    LET plain == snippetToPlainText(newText, isHtml)
        typed == SelectSeq(trace, IsTyped)
    IN strategy = "type" =>
           /\ Len(typed) <= Len(plain)
           /\ \A j \in 1..Len(typed) :
                  /\ plain[j] = LineFeed => typed[j] = <<"KeyDownUp", VK_RETURN>>
                  /\ plain[j] # LineFeed => typed[j] = <<"Unicode", plain[j]>>
           /\ (lastResult = "ok" /\ pc = "Idle") => Len(typed) = Len(plain)

C8_Witness ==
    /\ strategy = "type"
    /\ lastResult = "ok"
    /\ pc = "Idle"
    /\ isHtml
    /\ snippetToPlainText(newText, isHtml) = <<65, LineFeed>>
    /\ SelectSeq(trace, IsTyped) = <<<<"Unicode", 65>>, <<"KeyDownUp", VK_RETURN>>>>

\* C9: with cursorPos >= 0 a call that returns has synthesized exactly
\* max(0, printableCharacterCount(plain text) - cursorPos) Left arrows, never
\* more on the way, all of them after the paste and type events; with
\* cursorPos < 0 there is no Left arrow and no capture besides those of the
\* paste or type branch.
C9_LeftArrows ==
    LET plain == IF isHtml THEN HtmlToPlainText(newText) ELSE newText
        count == printableCharacterCount(plain)
        wanted == IF count - cursorPos > 0 THEN count - cursorPos ELSE 0
        lefts == Len(SelectSeq(trace, IsLeft))
        captures == Len(SelectSeq(trace, IsCapture))
        leftAt == {j \in 1..Len(trace) : IsLeft(trace[j])}
        contentAt == {k \in 1..Len(trace) : IsPasteOp(trace[k]) \/ IsTyped(trace[k])}
    IN /\ cursorPos >= 0 =>
             /\ lefts <= wanted
             /\ (lastResult = "ok" /\ pc = "Idle") => lefts = wanted
             /\ \A j \in leftAt : \A k \in contentAt : k < j
       /\ cursorPos < 0 =>
             /\ lefts = 0
             /\ pc \notin {"posCapture", "posLoop"}
             /\ strategy = "paste" => captures <= 1
             /\ strategy = "type" => captures <= Len(text)

C9_Witness ==
    /\ cursorPos = 0
    /\ lastResult = "ok"
    /\ pc = "Idle"
    /\ Len(newText) = 3
    /\ printableCharacterCount(newText) = 1
    /\ Len(SelectSeq(trace, IsLeft)) = 1
    /\ \E j \in 1..Len(trace) : IsTyped(trace[j])

\* C10: when a call is over, every capture of the modifier keys in its trace
\* has been followed by its restore, and every modifier key the user holds is
\* down.
C10_CapturesAllRestoredAtExit ==
    CallOver =>
        /\ Len(SelectSeq(trace, IsCapture)) = Len(SelectSeq(trace, IsRestore))
        /\ physHeld \subseteq keysDown

\* ------------------------------------------------- modifier keys (C11 - C13)
\* The modifier keys among the keys of kd.
ModifiersDown(kd) == kd \cap Range(modifierKeys)

\* The steps that run backupAndReleaseModifierKeys.
CaptureSteps == {"pasteCapture", "typeCapture", "posCapture"}

\* The step taken from a capture step is the capture itself, not a failure.
CaptureDone == pc \in CaptureSteps /\ pc' \notin {pc, "catch", "Idle"}

\* C11: whichever of the eight modifier keys are down when
\* backupAndReleaseModifierKeys runs, none of them is down once it has
\* returned, the list it returns holds exactly the keys that were down, and
\* the list is empty when none was down.
C11_CaptureReleasesEveryModifier ==
    [][CaptureDone =>
          /\ ModifiersDown(keysDown') = {}
          /\ Range(pressedModifiers') = ModifiersDown(keysDown)
          /\ Len(pressedModifiers') = Cardinality(ModifiersDown(keysDown))
          /\ (ModifiersDown(keysDown) = {} => pressedModifiers' = <<>>)]_vars

\* A capture has run with the eight keys down, and released them all.
C11_Witness ==
    /\ pc = "ctrlDown"
    /\ Range(pressedModifiers) = Range(modifierKeys)
    /\ keysDown = {}

\* The step taken is restoreModifierKeys, not a failure and not a Left arrow.
RestoreDone ==
    \/ pc \in {"pasteRestore", "typeRestore"} /\ pc' \notin {pc, "catch", "Idle"}
    \/ pc = "posLoop" /\ pc' = "restoreHook"

\* The entries a step has appended to the trace.
Appended == SubSeq(trace', Len(trace) + 1, Len(trace'))

\* The user has changed no key since the latest capture.
NoMoveInBracket == userMoved # "bracket"

\* C12: whichever modifier keys were down before a capture, once the restore
\* that follows has run, the user changing no key in between, each of the
\* eight keys is down exactly if it was down before the capture; the restore
\* synthesizes one key-down per key of the snapshot, in the order of the
\* snapshot (the keys that were down, in the order of modifierKeys), and no
\* other key-down.
C12_CaptureRestoreRoundTrip ==
    [][RestoreDone =>
          /\ NoMoveInBracket => ModifiersDown(keysDown') = ModifiersDown(downAtCapture)
          /\ Appended = <<<<"Restore", 0>>>> \o KeyEvents("KeyDown", pressedModifiers)
          /\ pressedModifiers = BackupResult(downAtCapture)]_vars

\* A capture immediately followed by its restore (cursor positioning with no
\* Left arrow to send) has run with several keys held, and they are down again.
C12_Witness ==
    /\ pc = "restoreHook"
    /\ cursorPos >= 0
    /\ SelectSeq(trace, IsLeft) = <<>>
    /\ Len(pressedModifiers) >= 3
    /\ NoMoveInBracket
    /\ keysDown = downAtCapture
    /\ trace[Len(trace)] = <<"KeyDown", pressedModifiers[Len(pressedModifiers)]>>

\* C13: when a call has returned without a failure, the user having changed
\* no key meanwhile, each of the eight modifier keys is down exactly if the
\* user holds it, as before the call; Left Control, pressed for the paste
\* chord, is down only if the user holds it.
C13_ModifiersAsBeforeAfterCall ==
    (pc = "Idle" /\ lastResult = "ok" /\ userMoved = "none") =>
        /\ ModifiersDown(keysDown) = ModifiersDown(physHeld)
        /\ (VK_LCONTROL \in keysDown => VK_LCONTROL \in physHeld)

\* A paste with repositioning has returned while the user holds modifier keys,
\* Left Control not among them.
C13_Witness ==
    /\ pc = "Idle" /\ lastResult = "ok"
    /\ strategy = "paste"
    /\ cursorPos >= 0
    /\ \E e \in Range(trace) : IsKeyV(e)
    /\ userMoved = "none"
    /\ physHeld = {VK_RCONTROL, VK_LMENU, VK_RSHIFT, VK_LWIN}
    /\ keysDown = physHeld

\* ------------------------------------------------ printable characters (C14)
\* How many of the code points of u satisfy P.
CountOf(u, P(_)) == Cardinality({j \in DOMAIN u : P(u[j])})

IsJoiner(c) == c = ZeroWidthJoiner
IsFitzpatrick(c) == c >= FitzpatrickFirst /\ c <= FitzpatrickLast

\* max(0, n - 2z - f) for the code points of str.
ClosedFormCount(str) ==
    LET u == ToUcs4(str)
        d == Len(u) - 2 * CountOf(u, IsJoiner) - CountOf(u, IsFitzpatrick)
    IN IF d > 0 THEN d ELSE 0

\* C14: printableCharacterCount(str) is max(0, n - 2z - f), with n the number
\* of code points of str, z those equal to U+200D and f those in
\* U+1F3FB..U+1F3FF; it is never negative, 0 for the empty string, 1 for "A",
\* 1 for emoji + joiner + emoji and 1 for emoji + Fitzpatrick modifier.
C14_CountIsClosedForm ==
    countOut # <<>> =>
        /\ countOut[1] = ClosedFormCount(countIn)
        /\ countOut[1] >= 0
        /\ (countIn = <<>> => countOut[1] = 0)
        /\ (countIn = <<65>> => countOut[1] = 1)
        /\ (countIn = FromUcs4(<<128104, ZeroWidthJoiner, 128104>>) => countOut[1] = 1)
        /\ (countIn = FromUcs4(<<128104, FitzpatrickFirst>>) => countOut[1] = 1)

\* The count of emoji + joiner + emoji has been computed.
C14_Witness ==
    /\ countIn = FromUcs4(<<128104, ZeroWidthJoiner, 128104>>)
    /\ countOut = <<1>>

\* ------------------------------------------------ clipboard bracket (C15 - C19)
\* The step runs a scheduled restoreClipboard / schedules one.
RestoreFired == pendingRestores' < pendingRestores
RestoreScheduled == pendingRestores' > pendingRestores

\* C15: a scheduled clipboard restore never runs inside a call: it runs when
\* the call that scheduled it has returned to Idle with the hook flag back to
\* its value of before the call; scheduling leaves the clipboard as it is, one
\* restore is scheduled per paste, each run takes one scheduled restore, and
\* every scheduled restore eventually runs.
C15_RestoreDeferredUntilIdle ==
    /\ [][RestoreFired =>
             /\ pc = "Idle" /\ pc' = "Idle"
             /\ hookEnabled = hookBefore
             /\ pendingRestores' = pendingRestores - 1]_vars
    /\ [][RestoreScheduled =>
             /\ pc = "scheduleRestore"
             /\ pendingRestores' = pendingRestores + 1
             /\ clipboard' = clipboard]_vars
    /\ [](pendingRestores > 0 => <>(pendingRestores = 0))

\* The same without the hook flag: the restore runs outside every call, once
\* per schedule, and every scheduled restore runs.
RestoreDeferredAndRunOnce ==
    /\ [][RestoreFired =>
             /\ pc = "Idle" /\ pc' = "Idle"
             /\ pendingRestores' = pendingRestores - 1]_vars
    /\ [][RestoreScheduled =>
             /\ pc = "scheduleRestore"
             /\ pendingRestores' = pendingRestores + 1
             /\ clipboard' = clipboard]_vars
    /\ [](pendingRestores > 0 => <>(pendingRestores = 0))

\* C16: whenever a call that backed up the clipboard is over, whether it
\* returned or failed, it has scheduled a clipboard restore; no call ends
\* leaving its replacement on the clipboard with no restore pending.
C16_ClipboardBracketReleased ==
    CallOver =>
        /\ (\E e \in Range(trace) : e[1] = "BackupClipboard")
               => (\E e \in Range(trace) : e[1] = "ScheduleRestore")
        /\ (freshWrite => pendingRestores > 0)

\* C17: when getActiveExecutableFileName has returned the empty name (the
\* process could not be opened or its module name not read), that step has
\* raised no failure, and the test of line 174 finds the target not sensitive
\* and goes on with the paste strategy, starting with the clipboard backup.
C17_UnresolvedNameIsPasted ==
    /\ [][(pc = "select" /\ pc' = "branch") => exc' = "none"]_vars
    /\ [][(pc = "branch" /\ exeName = "" /\ pc' \notin {pc, "catch", "Idle"}) =>
             /\ ~sensitive'
             /\ strategy' = "paste"
             /\ pc' = "backupClipboard"
             /\ exc' = "none"]_vars

\* The name has come back empty, after the backspaces, and the call goes on.
C17_Witness ==
    /\ pc = "branch"
    /\ exeName = ""
    /\ exc = "none"
    /\ charCount = 1
    /\ trace = <<<<"Backspace", VK_BACK>>>>

\* The call has written its replacement to the clipboard.
HasWritten == \E e \in Range(trace) : e[1] \in {"SetText", "SetHtml"}

\* The call started while the restore of an earlier paste was pending and the
\* replacement of that paste was still on the clipboard.
Overlapping == freshAtCall /\ pendingAtCall > 0

\* C18: a call is accepted while the restore of an earlier paste is pending;
\* when such a call pastes, the content its backup has captured is the
\* replacement the earlier call wrote, not the content the user had on the
\* clipboard.
C18_OverlapBacksUpReplacement ==
    /\ (pc = "Idle" /\ callsLeft > 0) => ENABLED Call
    /\ (Overlapping /\ HasWritten) =>
           /\ clipAtCall = writeAtCall
           /\ clipboardBackup = writeAtCall
           /\ clipboardBackup # UserClipboard

\* A second paste has returned before the restore of the first has run: two
\* restores are pending and the backup holds the replacement of the first call.
C18_Witness ==
    /\ pc = "Idle" /\ lastResult = "ok"
    /\ Overlapping /\ HasWritten
    /\ pendingRestores = 2
    /\ clipboardBackup = [text |-> <<65>>, html |-> FALSE]
    /\ clipboard = [text |-> <<LineFeed>>, html |-> FALSE]

\* C19: a call made when no restore was pending, that pasted: when its restore
\* runs, the clipboard holds again the content it held when the call started,
\* which is the content the backup of the call captured, whatever the
\* replacement and its format.
C19_SerializedRestoreGivesBackContent ==
    [][(RestoreFired /\ pendingAtCall = 0) =>
          /\ HasWritten
          /\ clipboard = [text |-> newText, html |-> isHtml]
          /\ clipboard' = clipAtCall]_vars

\* The restore of the second of two serialized rich-text pastes has run.
C19_Witness ==
    /\ pc = "Idle" /\ lastResult = "ok"
    /\ callsLeft = MaxCalls - 2
    /\ isHtml /\ newText = <<MarkupBold>>
    /\ HasWritten
    /\ pendingRestores = 0
    /\ ~freshWrite
    /\ clipboard = clipAtCall
    /\ clipboard = UserClipboard

\* ---------------------------------------------------------- paste chord (C20)
\* C20: in the paste strategy, when the V key is synthesized one capture and no
\* restore has run, and Left Control is down and no other modifier key is,
\* whatever the user held when the capture ran (the user changing no key
\* between the capture and the restore); when the restore of the user's
\* modifiers starts Left Control has been released; and after that one
\* restore the keys are as the user holds them.
C20_ChordUnderControlOnly ==
    /\ pc \in {"keyV", "ctrlUp"} =>
           /\ NoMoveInBracket => ModifiersDown(keysDown) = {VK_LCONTROL}
           /\ Len(SelectSeq(trace, IsCapture)) = 1
           /\ Len(SelectSeq(trace, IsRestore)) = 0
    /\ pc = "pasteRestore" =>
           /\ NoMoveInBracket => ModifiersDown(keysDown) = {}
           /\ trace[Len(trace)] = <<"KeyUp", VK_LCONTROL>>
    /\ pc = "scheduleRestore" =>
           /\ Len(SelectSeq(trace, IsCapture)) = 1
           /\ Len(SelectSeq(trace, IsRestore)) = 1
           /\ NoMoveInBracket => keysDown = physHeld

\* The V key has just been synthesized while the user holds the eight keys.
C20_Witness ==
    /\ pc = "ctrlUp"
    /\ NoMoveInBracket
    /\ physHeld = Range(modifierKeys)
    /\ keysDown = {VK_LCONTROL}
    /\ IsKeyV(trace[Len(trace)])

\* ------------------------------------------------ brackets of keys (C21, C22)
IsSleep(e) == e[1] = "Sleep"
IsBracketEvent(e) == IsCapture(e) \/ IsTyped(e) \/ IsRestore(e) \/ IsSleep(e)

\* C21: in the type strategy the captures, character events, restores and
\* waits of the trace come character by character in the order capture,
\* character event, restore, wait, so that no capture or character event
\* comes while an earlier capture is unrestored; a wait is in the trace only
\* for a configured delay greater than zero, and then after every character.
C21_OneBracketPerCharacter ==
    LET ev == SelectSeq(trace, IsBracketEvent)
        period == IF delayRead > 0 THEN 4 ELSE 3
        typeLen == IF Len(ev) < period * Len(text) THEN Len(ev)
                   ELSE period * Len(text)
    IN strategy = "type" =>
           /\ \A j \in 1..typeLen :
                  LET r == (j - 1) % period
                  IN /\ r = 0 => IsCapture(ev[j])
                     /\ r = 1 => IsTyped(ev[j])
                     /\ r = 2 => IsRestore(ev[j])
                     /\ r = 3 => ev[j] = <<"Sleep", delayRead>>
           /\ delayRead = -1 => Len(ev) <= 3
           /\ \A e \in Range(trace) : IsSleep(e) => e[2] > 0 /\ e[2] = delayRead
           /\ (lastResult = "ok" /\ pc = "Idle") => Len(ev) >= period * Len(text)

\* Two characters have been typed with a delay of 10 ms; the user held keys
\* at the first and released them during the call: two brackets, each followed
\* by its wait.
C21_Witness ==
    /\ strategy = "type"
    /\ lastResult = "ok" /\ pc = "Idle"
    /\ cursorPos < 0
    /\ userMoved # "none"
    /\ physHeld = {}
    /\ \E e \in Range(trace) : e = <<"KeyUp", VK_LSHIFT>>
    /\ Len(text) = 2
    /\ delayRead = 10
    /\ Len(SelectSeq(trace, IsBracketEvent)) = 8

\* The same with no delay configured: two brackets and no wait.
C21_NoWaitReached ==
    /\ strategy = "type"
    /\ lastResult = "ok" /\ pc = "Idle"
    /\ Len(text) = 2
    /\ delayRead = 0
    /\ Len(SelectSeq(trace, IsBracketEvent)) = 6

\* The captures, Left arrows and restores of the trace from its last capture on.
PositioningRun ==
    LET captureAt == {j \in 1..Len(trace) : IsCapture(trace[j])}
        last == CHOOSE j \in captureAt : \A k \in captureAt : k <= j
        IsRunEvent(e) == IsCapture(e) \/ IsLeft(e) \/ IsRestore(e)
    IN IF captureAt = {} THEN <<>>
       ELSE SelectSeq(SubSeq(trace, last, Len(trace)), IsRunEvent)

\* C22: a call with cursorPos >= 0 that returns ends with one capture, the
\* Left arrows and one restore, in that order and with nothing of the three
\* kinds in between, also when there is no Left arrow to send; while the
\* Left arrows are being sent, the trace ends with one capture and the Left
\* arrows sent so far, and Left arrows are sent at no other time.
C22_OneBracketForLeftArrows ==
    /\ (cursorPos >= 0 /\ lastResult = "ok" /\ pc = "Idle") =>
           LET run == PositioningRun
               lefts == LeftArrowCount(newText, isHtml, cursorPos)
           IN /\ Len(run) = lefts + 2
              /\ IsCapture(run[1])
              /\ \A j \in 2..(lefts + 1) : IsLeft(run[j])
              /\ IsRestore(run[lefts + 2])
              /\ IsRestore(trace[Len(trace) - Len(pressedModifiers)])
    /\ pc = "posLoop" =>
           LET run == PositioningRun
           IN /\ Len(run) >= 1
              /\ IsCapture(run[1])
              /\ \A j \in 2..Len(run) : IsLeft(run[j])
              /\ Len(run) = i + 1
    /\ (\E e \in Range(trace) : IsLeft(e)) => pc \in {"posLoop", "restoreHook", "catch", "rethrow", "Idle"}

\* The pair has run around no Left arrow at all: cursorPos is not smaller than
\* the printable count.
C22_Witness ==
    /\ cursorPos >= 0 /\ lastResult = "ok" /\ pc = "Idle"
    /\ newText = <<65>>
    /\ cursorPos = 1
    /\ LeftArrowCount(newText, isHtml, cursorPos) = 0
    /\ physHeld # {}
    /\ Len(PositioningRun) = 2

\* The pair has run around two Left arrows.
C22_TwoLeftsReached ==
    /\ cursorPos = 0 /\ lastResult = "ok" /\ pc = "Idle"
    /\ Len(PositioningRun) = 4

\* ----------------------------------------------- repositioning of typed text
\* C23: a call that typed its replacement and returns with cursorPos >= 0 has
\* sent max(0, printableCharacterCount(typed text) - cursorPos) Left arrows,
\* the typed text being the plain text from which U+FFFC was removed.
C23_LeftArrowsCountTypedText ==
    (strategy = "type" /\ cursorPos >= 0 /\ lastResult = "ok" /\ pc = "Idle") =>
        Len(SelectSeq(trace, IsLeft)) =
            qMax(0, printableCharacterCount(snippetToPlainText(newText, isHtml))
                    - cursorPos)

\* ------------------------------------------------ verdict of each call (C24)
IsVerdict(e) == e[1] = "IsSensitive"

\* C24: a call starts with no verdict and no strategy; the test of the
\* foreground application is made once in a call, right after the backspaces,
\* on the name resolved in that call, and the strategy follows from it alone:
\* type for a sensitive name, paste otherwise, whatever an earlier call did.
C24_VerdictAfreshInEveryCall ==
    /\ [][(pc = "Idle" /\ pc' # "Idle") =>
             strategy' = "none" /\ exeName' = "" /\ trace' = <<>>]_vars
    /\ [][(pc = "branch" /\ pc' \notin {pc, "catch", "Idle"}) =>
             /\ strategy' = IF isSensitiveApplication(exeName) THEN "type" ELSE "paste"
             /\ Appended = <<<<"IsSensitive", 0>>>>]_vars
    /\ [](LET verdicts == {j \in 1..Len(trace) : IsVerdict(trace[j])}
          IN /\ Cardinality(verdicts) <= 1
             /\ strategy # "none" <=> verdicts # {}
             /\ (lastResult = "ok" /\ pc = "Idle") => verdicts # {}
             /\ \A j \in verdicts :
                    /\ j = EraseCount(charCount) + 1
                    /\ \A k \in 1..(j - 1) : IsBackspace(trace[k]))

\* The second of two calls has typed its replacement, after its backspace,
\* while the restore of the first call, which pasted, is still pending.
C24_Witness ==
    /\ callsLeft = MaxCalls - 2
    /\ strategy = "type"
    /\ lastResult = "ok" /\ pc = "Idle"
    /\ Overlapping
    /\ charCount = 1
    /\ IsBackspace(trace[1]) /\ IsVerdict(trace[2])
    /\ \E e \in Range(trace) : IsTyped(e)

\* ------------------------------------------ preferences frame: combo folder
\* Everything of the substitution engine.
engineVars == <<hookEnabled, keysDown, physHeld, callsLeft, lenCap, eraseChoices,
                cursorCap, htmlKinds, moveCap, countIn, countOut, atCallVars, clipVars, pc,
                argVars, localVars, exc, trace, strategy, lastResult, hookBefore>>

\* QChar::isSpace, the test of QString::trimmed: the controls U+0009 to
\* U+000D, the space, U+0085, U+00A0 and the separators of Unicode (Zs, Zl, Zp).
IsSpace(c) ==
    \/ c \in 9..13
    \/ c \in {Space, 133, 160, 5760, 8232, 8233, 8239, 8287, 12288}
    \/ c \in 8192..8202

\* path.trimmed().isEmpty(): nothing is left once the white space at both ends
\* is removed, that is, every code unit is white space.
IsBlank(path) == \A j \in DOMAIN path : IsSpace(path[j])

\* What QFileDialog::getExistingDirectory returns: a folder, or the empty string
\* when the user cancels.
DialogResults == {<<>>, defaultComboListFolderPath} \cup OtherFolders

\* applyComboListFolderPreference(folderPath, previousPath), entered with the
\* edit field showing field, called by the handler action; saved is the answer
\* of ComboManager::saveComboListToFile.  fieldBefore is the text the edit field
\* had when the handler started.
applyComboListFolderPreference(folderPath, previousPath, field, saved, action, fieldBefore) ==
    /\ comboListFolderPath' = IF saved THEN folderPath ELSE previousPath
    /\ editComboListFolder' = IF saved THEN toNativeSeparators(folderPath) ELSE field
    /\ lastApply' = [action |-> action, saved |-> saved, folderPath |-> folderPath,
                     previousPath |-> previousPath, fieldBefore |-> fieldBefore]

\* lines 200-207
onActionChangeComboListFolder ==
    \E path \in DialogResults, saved \in BOOLEAN :
        /\ IF IsBlank(path)
           THEN UNCHANGED folderVars
           ELSE applyComboListFolderPreference(path, comboListFolderPath,
                    editComboListFolder, saved, "change", editComboListFolder)
        /\ UNCHANGED <<engineVars, statusVars>>

\* lines 213-217
onActionResetComboListFolder ==
    \E saved \in BOOLEAN :
        /\ applyComboListFolderPreference(defaultComboListFolderPath, comboListFolderPath,
               editComboListFolder, saved, "resetFolder", editComboListFolder)
        /\ UNCHANGED <<engineVars, statusVars>>

\* The stored folder after PreferencesManager::reset().
AfterReset == defaultComboListFolderPath

\* The text loadPreferences puts in the folder edit field (line 82) when the
\* preferences hold the folder stored.
LoadedFolderField(stored) == toNativeSeparators(stored)

\* lines 171-185: the user answers the question; after Yes the preferences are
\* reset, loadPreferences refreshes the controls, and the folder is applied
\* with the folder that was stored before as previousPath.
onActionResetToDefaultValues ==
    \E yes \in BOOLEAN, saved \in BOOLEAN :
        /\ IF ~yes
           THEN UNCHANGED folderVars
           ELSE applyComboListFolderPreference(AfterReset, comboListFolderPath,
                    LoadedFolderField(AfterReset), saved, "resetAll", editComboListFolder)
        /\ UNCHANGED <<engineVars, statusVars>>

\* ------------------------------------- preferences frame: update check label
\* QTimer::stop() and QTimer::start(msec).
TimerStop(timer) == [active |-> FALSE, left |-> 0]
TimerStart(timer, msec) == [active |-> TRUE, left |-> msec]

\* The timer after lines 135 and 137 of setUpdateCheckStatus.
RearmedTimerKeepsDeadline(timer) ==
    IF timer.active THEN timer ELSE TimerStart(timer, kUpdateCheckStatusLabelTimeoutMs)
RearmedTimer(timer) == TimerStart(TimerStop(timer), kUpdateCheckStatusLabelTimeoutMs)

\* lines 133-138
setUpdateCheckStatus(status) ==
    /\ labelUpdateCheckStatus' = status
    /\ updateCheckStatusTimer' = RearmedTimer(updateCheckStatusTimer)
    /\ shownMs' = 0
    /\ clears' = 0
    /\ stoppedLeft' = IF updateCheckStatusTimer.active
                      THEN updateCheckStatusTimer.left ELSE -1

\* An update check result reaches the frame.
Notified ==
    /\ messagesLeft > 0
    /\ messagesLeft' = messagesLeft - 1
    /\ UNCHANGED <<engineVars, folderVars>>

\* lines 316-321, with and without the information on the latest version
onUpdateIsAvailable ==
    \E status \in {"Beeftext v2.0 is available.", "A new version is available."} :
        setUpdateCheckStatus(status) /\ Notified

\* lines 327-330
onNoUpdateIsAvailable == setUpdateCheckStatus("The software is up to date.") /\ Notified

\* lines 336-339
onUpdateCheckFailed == setUpdateCheckStatus("Update check failed.") /\ Notified

\* The time that passes in one step.
TickMs == kUpdateCheckStatusLabelTimeoutMs \div TicksPerTimeout

Min(a, b) == IF a < b THEN a ELSE b

\* Time passes while the timer runs; a timer that is due stays due until the
\* event loop runs its slot.
Tick ==
    /\ updateCheckStatusTimer.active
    /\ updateCheckStatusTimer.left > 0
    /\ shownMs' = Min(shownMs + TickMs, kUpdateCheckStatusLabelTimeoutMs)
    /\ updateCheckStatusTimer' =
           IF updateCheckStatusTimer.active
           THEN [updateCheckStatusTimer EXCEPT !.left = IF @ > TickMs THEN @ - TickMs ELSE 0]
           ELSE updateCheckStatusTimer
    /\ UNCHANGED <<engineVars, folderVars, labelUpdateCheckStatus, clears, stoppedLeft,
                   messagesLeft>>

\* line 40: the timer is due, the event loop runs the slot connected to its
\* timeout; the timer is single-shot (line 39) and stops.
StatusTimeout ==
    /\ updateCheckStatusTimer.active
    /\ updateCheckStatusTimer.left = 0
    /\ labelUpdateCheckStatus' = ""
    /\ updateCheckStatusTimer' = StoppedTimer
    /\ clears' = clears + 1
    /\ UNCHANGED <<engineVars, folderVars, shownMs, stoppedLeft, messagesLeft>>

\* The frame is constructed with any folder stored in the preferences.
InitFrame ==
    /\ InitWith({}, 0, 0, {}, {}, -1, 0)
    /\ NoCount
    /\ \E stored \in {defaultComboListFolderPath} \cup OtherFolders :
           FrameInit(stored, MaxMessages)

NextFrame ==
    \/ onActionChangeComboListFolder
    \/ onActionResetComboListFolder
    \/ onActionResetToDefaultValues
    \/ onUpdateIsAvailable
    \/ onNoUpdateIsAvailable
    \/ onUpdateCheckFailed
    \/ Tick
    \/ StatusTimeout

FrameSpec == InitFrame /\ [][NextFrame]_vars

\* Time passes, and the event loop runs the slot of a timer that is due.
FairFrameSpec == FrameSpec /\ WF_vars(Tick) /\ WF_vars(StatusTimeout)

\* ---------------------------------------------------------------- claim C25
\* applyComboListFolderPreference has been called and the save failed / worked.
ApplyFailed == lastApply.action # "none" /\ ~lastApply.saved
ApplySaved == lastApply.action # "none" /\ lastApply.saved

\* Inside the function a failed save leaves the edit field as the function
\* found it, and the preference is set back; a save that works leaves both at
\* the new folder.
ApplyRollsBackPreference ==
    /\ ApplyFailed => comboListFolderPath = lastApply.previousPath
    /\ ApplySaved => /\ comboListFolderPath = lastApply.folderPath
                     /\ editComboListFolder = toNativeSeparators(lastApply.folderPath)

\* C25: applyComboListFolderPreference is all-or-nothing, from every handler
\* that calls it, the reset to default values included: after a failed save
\* the stored folder is previousPath again and the folder edit field shows what
\* it showed before the action; after a save that works the stored folder is
\* folderPath and the edit field shows folderPath.
C25_FolderChangeIsAllOrNothing ==
    /\ ApplyFailed => /\ comboListFolderPath = lastApply.previousPath
                      /\ editComboListFolder = lastApply.fieldBefore
    /\ ApplySaved => /\ comboListFolderPath = lastApply.folderPath
                     /\ editComboListFolder = toNativeSeparators(lastApply.folderPath)

\* Without the reset to default values the same statement holds.
FolderChangeIsAllOrNothingOutsideReset ==
    lastApply.action # "resetAll" => C25_FolderChangeIsAllOrNothing

\* The edit field shows the stored folder.
FieldShowsStoredFolder == editComboListFolder = toNativeSeparators(comboListFolderPath)

\* ---------------------------------------------------------------- claim C26
\* A step of setUpdateCheckStatus, and a step that clears the label.
StatusMessageStep == messagesLeft' < messagesLeft
StatusClearedStep == labelUpdateCheckStatus # "" /\ labelUpdateCheckStatus' = ""

\* C26: the status label is cleared by a single-shot timer counted from the
\* latest message.  Every setUpdateCheckStatus leaves the timer running with
\* the whole time-out ahead, whatever was pending; the label is only cleared
\* once the whole time-out has passed since the latest message; no second
\* time-out follows the one that cleared it; and a message that is shown is
\* eventually cleared, by exactly one time-out.
C26_LabelClearedOnceAfterLatestMessage ==
    /\ [][StatusMessageStep =>
              /\ labelUpdateCheckStatus' # ""
              /\ updateCheckStatusTimer' =
                     [active |-> TRUE, left |-> kUpdateCheckStatusLabelTimeoutMs]]_vars
    /\ [][StatusClearedStep => shownMs >= kUpdateCheckStatusLabelTimeoutMs]_vars
    /\ [](clears <= 1)
    /\ [](labelUpdateCheckStatus = "" => ~updateCheckStatusTimer.active)
    /\ [](labelUpdateCheckStatus # "" => updateCheckStatusTimer.active)
    /\ (labelUpdateCheckStatus # "") ~> (labelUpdateCheckStatus = "" /\ clears = 1)

\* A message arrived while the time-out of an earlier one was partly elapsed,
\* and has been cleared by one time-out.
C26_Witness ==
    /\ labelUpdateCheckStatus = ""
    /\ clears = 1
    /\ shownMs = kUpdateCheckStatusLabelTimeoutMs
    /\ stoppedLeft > 0
    /\ stoppedLeft < kUpdateCheckStatusLabelTimeoutMs

\* ------------------------------------------ keys changed while a call waits
\* Left Control and Left Shift were held when a call started to type two
\* characters with a delay of 10 ms and were released during the first wait:
\* the second capture finds no key down, so the second character is typed
\* without key-ups and key-downs, and no key is down when the call returns.
KeysReleasedDuringWaitReached ==
    /\ pc = "Idle" /\ lastResult = "ok"
    /\ keysDown = {}
    /\ physHeld = {}
    /\ Len(text) = 2
    /\ SubSeq(trace, 2, Len(trace)) =
           <<<<"Capture", 0>>, <<"KeyUp", VK_LCONTROL>>, <<"KeyUp", VK_LSHIFT>>,
             CharEvent(text[1]), <<"Restore", 0>>, <<"KeyDown", VK_LCONTROL>>,
             <<"KeyDown", VK_LSHIFT>>, <<"Sleep", 10>>, <<"Capture", 0>>,
             CharEvent(text[2]), <<"Restore", 0>>, <<"Sleep", 10>>>>

====
